---- MODULE Spec2Model ----
(***************************************************************************)
(* Polled driver for a Synopsys DesignWare DW_apb UART (src/src/lib.rs,    *)
(* src/src/registers.rs, src/src/embedded_io.rs), run against a device     *)
(* that drains the transmit FIFO, receives characters and latches receive  *)
(* faults on its own.  One step of the driver is one register access; the  *)
(* device may move between any two of them.                                *)
(***************************************************************************)
EXTENDS Integers, Sequences, FiniteSets, TLC

\* ------------------------------------------------------------- bounds
MaxCalls == 2
MaxArrivals == 2
MaxFaults == 1
TxDepth == 1
RxDepth == 1

\* u32 arithmetic: 16 * b overflows 32 bits exactly when b >= 2^28, and then
\* (16 * b) mod 2^32 = 16 * (b mod 2^28).  (The model checker's integers stop
\* at 2^31 - 1, so the product is never formed beyond that.)
U32Over16 == 268435456

\* Bytes the owner passes to write_word, buffers it passes to the byte-stream
\* write, words the receive register can hold (bits above 7 are reserved),
\* and (baud_rate, serial_clock) pairs it passes to configure.
TxBytes == {65, 195}
IoBufs == {<< >>, <<65>>, <<195, 65>>}
Strs == {<< >>, <<65, 195>>, <<195, 65, 65>>}
IoReadBufs == {<< >>, <<0>>, <<0, 0>>}
RxWords == {65, 451}
ConfigArgs ==
  { <<115200, 48000000>>, <<9600, 100060805>>, <<1, 16777221>>,
    <<115200, 1000000>>, <<0, 48000000>>, <<268435457, 48000000>> }

\* ------------------------------------------------- registers.rs: flags
Lcr_DLAB == 128
Lcr_DLS_8 == 3
Lsr_RFE == 128
Lsr_TEMT == 64
Lsr_THRE == 32
Lsr_BI == 16
Lsr_FE == 8
Lsr_PE == 4
Lsr_OE == 2
Lsr_DR == 1
Usr_RFF == 16
Usr_RFNE == 8
Usr_TFE == 4
Usr_TFNF == 2
Usr_BUSY == 1
Fcr_FIFOE == 1

\* bitflags: flags.contains(flag), (flags & flag) == flag, for a one-bit flag
contains(flags, flag) == (flags \div flag) % 2 = 1

\* registers.rs:16-31, 49-66, 73-92, 99-118, 125-138, 145-156: the named flags
\* of each register type
LcrFlags == [DLAB |-> Lcr_DLAB, BC |-> 2 ^ 6, EPS |-> 2 ^ 4, PEN |-> 2 ^ 3, STOP |-> 2 ^ 2]
McrFlags == [SIRE |-> 2 ^ 6, AFCE |-> 2 ^ 5, LB |-> 2 ^ 4, OUT2 |-> 2 ^ 3,
             OUT1 |-> 2 ^ 2, RTS |-> 2 ^ 1, DTR |-> 2 ^ 0]
\* Mutant of LsrFlags: FE declared on the bit of PE.
LsrFlags_fe_on_pe == [RFE |-> Lsr_RFE, TEMT |-> Lsr_TEMT, THRE |-> Lsr_THRE, BI |-> Lsr_BI,
                      FE |-> Lsr_PE, PE |-> Lsr_PE, OE |-> Lsr_OE, DR |-> Lsr_DR]

LsrFlags == [RFE |-> Lsr_RFE, TEMT |-> Lsr_TEMT, THRE |-> Lsr_THRE, BI |-> Lsr_BI,
             FE |-> Lsr_FE, PE |-> Lsr_PE, OE |-> Lsr_OE, DR |-> Lsr_DR]
MsrFlags == [DCD |-> 2 ^ 7, RI |-> 2 ^ 6, DSR |-> 2 ^ 5, CTS |-> 2 ^ 4,
             DDCD |-> 2 ^ 3, TERI |-> 2 ^ 2, DDSR |-> 2 ^ 1, DCTS |-> 2 ^ 0]
UsrFlags == [RFF |-> Usr_RFF, RFNE |-> Usr_RFNE, TFE |-> Usr_TFE, TFNF |-> Usr_TFNF,
             BUSY |-> Usr_BUSY]
FcrFlags == [DMAM |-> 2 ^ 3, XFIFOR |-> 2 ^ 2, RFIFOR |-> 2 ^ 1, FIFOE |-> Fcr_FIFOE]

RegTypes == {"Lcr", "Mcr", "Lsr", "Msr", "Usr", "Fcr"}

FlagTable(reg) ==
  CASE reg = "Lcr" -> LcrFlags
    [] reg = "Mcr" -> McrFlags
    [] reg = "Lsr" -> LsrFlags
    [] reg = "Msr" -> MsrFlags
    [] reg = "Usr" -> UsrFlags
    [] reg = "Fcr" -> FcrFlags

\* Bits of a register type that belong to no named flag but that the type
\* defines values for (registers.rs:33-42, Lcr::DLS_*), or 0.
FieldBits(reg) == IF reg = "Lcr" THEN {0, Lcr_DLS_8} ELSE {0}

VARIABLES
  \* the device
  lcr,        \* Line Control register
  dll,        \* divisor latch low, behind offset 0 while DLAB is set
  dlh,        \* divisor latch high, behind offset 4 while DLAB is set
  txFifo,     \* transmit FIFO: bytes accepted and not yet in the shifter
  tsr,        \* transmitter shift register: << >> or <<byte>>
  rxFifo,     \* receive FIFO: words waiting behind the receive register
  errBits,    \* latched Line Status error bits, a subset of LsrErrors
  rxActive,   \* a character is arriving on the line
  arrivals,   \* characters that started arriving so far
  faults,     \* receive fault occurrences so far
  \* the build
  overflow_checks,  \* whether u32 overflow panics (debug) or wraps (release)
  \* the owner of the driver
  pc,         \* where the current call stands; "idle" between calls
  op,         \* the current (or last) call
  via,        \* "io_write" while write_word runs on behalf of Write::write
  args,       \* its arguments
  ret,        \* its result; kind "pending" while it runs
  writes,     \* the register writes it issued, in order
  reads,      \* its reads of lsr and of offset 0, in order
  lastUsr,    \* the last value it read from usr; NoRead before the first read
  calls,      \* calls started so far
  errReports, \* read_word calls that returned an error so far
  \* other holders of a shared reference to the driver
  rd,         \* per reader there is: where its call stands, the call, its result
  \* the history of the transmit and receive sides, kept only where hist.on
  hist        \* bytes sent and accepted, words popped, bytes returned, ...

devVars == <<lcr, dll, dlh, txFifo, tsr, rxFifo, errBits, rxActive, arrivals, faults>>
drvVars == <<pc, op, via, args, ret, writes, reads, lastUsr, calls, errReports>>
vars == <<lcr, dll, dlh, txFifo, tsr, rxFifo, errBits, rxActive, arrivals, faults,
          overflow_checks, pc, op, via, args, ret, writes, reads, lastUsr, calls,
          errReports, rd, hist>>

NoRead == 0 - 1

\* The other holders of a shared reference (lib.rs:125-127, Sync).
Readers == {"r1", "r2"}

\* A reader between calls, before its first call.
IdleReader == [pc |-> "idle", op |-> "none", ret |-> [kind |-> "unit", val |-> 0]]

\* The history at the start; `on` tells whether it is kept. sent: the bytes
\* that left the transmitter; accepted: the bytes passed to write_word at its
\* write; popped: the words taken off the receive FIFO; byteReturns: the
\* read_word calls that returned a byte; emptySeen: is_rx_fifo_empty returned
\* true and nothing has arrived and no other call was made since; waited: the
\* current call has read a status value that made it wait; ovr: an overrun (a
\* character lost to a full receive FIFO) is latched and no read of lsr has
\* cleared it; ovrLost: such an overrun was cleared by a read_word that
\* returned something other than Overrun.
HistInit(on) ==
  IF ~on THEN [on |-> FALSE] ELSE
  [on |-> on, sent |-> << >>, accepted |-> << >>, popped |-> 0,
   byteReturns |-> 0, emptySeen |-> FALSE, waited |-> FALSE,
   ovr |-> FALSE, ovrLost |-> FALSE]

\* The next history: h where the history is kept, else unchanged.
Hist(h) == IF hist.on THEN h ELSE hist

LsrErrors == {Lsr_BI, Lsr_FE, Lsr_PE, Lsr_OE}

RECURSIVE SumSet(_)
SumSet(S) == IF S = {} THEN 0 ELSE LET x == CHOOSE y \in S : TRUE IN x + SumSet(S \ {x})

\* The union of the named flags `names` of a register type, as raw bits.
Recompose(reg, names) == SumSet({FlagTable(reg)[n] : n \in names})

\* The named flags of a register type that a raw value contains.
Decompose(reg, raw) == {n \in DOMAIN FlagTable(reg) : contains(raw, FlagTable(reg)[n])}

\* --------------------------------------------------- the device's registers
\* Usr value the device presents (registers.rs, Usr)
UsrValue ==
    (IF rxActive \/ tsr # << >> \/ txFifo # << >> THEN Usr_BUSY ELSE 0)
  + (IF Len(txFifo) < TxDepth THEN Usr_TFNF ELSE 0)
  + (IF txFifo = << >> THEN Usr_TFE ELSE 0)
  + (IF rxFifo # << >> THEN Usr_RFNE ELSE 0)
  + (IF Len(rxFifo) = RxDepth THEN Usr_RFF ELSE 0)

\* Lsr value the device presents (registers.rs, Lsr)
LsrValue ==
    (IF rxFifo # << >> THEN Lsr_DR ELSE 0)
  + SumSet(errBits)
  + (IF txFifo = << >> THEN Lsr_THRE ELSE 0)
  + (IF txFifo = << >> /\ tsr = << >> THEN Lsr_TEMT ELSE 0)
  + (IF errBits \cap {Lsr_BI, Lsr_FE, Lsr_PE} # {} THEN Lsr_RFE ELSE 0)

DlabSet == contains(lcr, Lcr_DLAB)

\* What a read of offset 0 (rbr_thr_dll) returns: the divisor latch while DLAB
\* is set, else the word at the head of the receive FIFO.
RbrValue == IF DlabSet THEN dll ELSE IF rxFifo = << >> THEN 0 ELSE Head(rxFifo)

\* ------------------------------------------------------ the device's moves
\* The transmitter takes the next byte of the FIFO into its shift register.
DevTxLoad ==
  /\ txFifo # << >> /\ tsr = << >>
  /\ tsr' = <<Head(txFifo)>>
  /\ txFifo' = Tail(txFifo)
  /\ UNCHANGED <<lcr, dll, dlh, rxFifo, errBits, rxActive, arrivals, faults>>
  /\ UNCHANGED <<overflow_checks, drvVars>>
  /\ UNCHANGED <<rd, hist>>

\* The shift register's byte has gone out on the line.
DevTxShiftOut ==
  /\ tsr # << >>
  /\ tsr' = << >>
  /\ UNCHANGED <<lcr, dll, dlh, txFifo, rxFifo, errBits, rxActive, arrivals, faults>>
  /\ UNCHANGED <<overflow_checks, drvVars>>
  /\ hist' = Hist([hist EXCEPT !.sent = Append(@, tsr[1])])
  /\ UNCHANGED rd

\* A character starts arriving: the UART is busy until it is complete.
DevRxStart ==
  /\ ~rxActive /\ arrivals < MaxArrivals
  /\ rxActive' = TRUE
  /\ arrivals' = arrivals + 1
  /\ UNCHANGED <<lcr, dll, dlh, txFifo, tsr, rxFifo, errBits, faults>>
  /\ UNCHANGED <<overflow_checks, drvVars>>
  /\ UNCHANGED <<rd, hist>>

\* The character is complete: it enters the receive FIFO, or is lost to an
\* overrun when the FIFO is full.
DevRxDone ==
  /\ rxActive
  /\ rxActive' = FALSE
  /\ \E w \in RxWords :
       IF Len(rxFifo) < RxDepth
         THEN /\ rxFifo' = Append(rxFifo, w)
              /\ UNCHANGED <<errBits, faults>>
         ELSE /\ errBits' = errBits \cup {Lsr_OE}
              /\ faults' = faults + 1
              /\ UNCHANGED rxFifo
  /\ UNCHANGED <<lcr, dll, dlh, txFifo, tsr, arrivals>>
  /\ UNCHANGED <<overflow_checks, drvVars>>
  /\ hist' = Hist([hist EXCEPT !.emptySeen = FALSE,
                                 !.ovr = @ \/ Len(rxFifo) = RxDepth])
  /\ UNCHANGED rd

\* A receive fault latches one or more error bits of Line Status.
DevFault ==
  /\ faults < MaxFaults
  /\ \E bits \in (SUBSET LsrErrors) \ {{}} : errBits' = errBits \cup bits
  /\ faults' = faults + 1
  /\ UNCHANGED <<lcr, dll, dlh, txFifo, tsr, rxFifo, rxActive, arrivals>>
  /\ UNCHANGED <<overflow_checks, drvVars>>
  /\ hist' = Hist([hist EXCEPT !.emptySeen = FALSE])
  /\ UNCHANGED rd

\* ------------------------------------------- what a register write does
\* A write to offset 0 (rbr_thr_dll): the divisor latch while DLAB is set, else
\* the transmit FIFO (a byte written to a full FIFO is lost).
DevWriteOffset0(v) ==
  IF DlabSet
    THEN dll' = v % 256 /\ UNCHANGED txFifo
    ELSE /\ txFifo' = IF Len(txFifo) < TxDepth THEN Append(txFifo, v % 256) ELSE txFifo
         /\ UNCHANGED dll

\* A write to offset 4 (dlh_ier): the divisor latch while DLAB is set, else the
\* interrupt enable register (which this model does not keep).
DevWriteOffset4(v) == dlh' = IF DlabSet THEN v % 256 ELSE dlh

\* One more entry of the call's write log, with DLAB as it is at the write.
Logged(reg, v) == Append(writes, [reg |-> reg, val |-> v, dlab |-> DlabSet])

\* ----------------------------------------------------------- the driver
NoArgs == [baud_rate |-> 0, serial_clock |-> 0, byte |-> 0, buf |-> << >>]
Pending == [kind |-> "pending", val |-> 0]
Unit == [kind |-> "unit", val |-> 0]
Panic == [kind |-> "panic", val |-> 0]
Bool(b) == [kind |-> "bool", val |-> IF b THEN 1 ELSE 0]
Result(k, v) == [kind |-> k, val |-> v]

\* Mutant of is_rx_fifo_empty: the test made on RFF (receive FIFO full).
is_rx_fifo_empty_rff(usr) == contains(usr, Usr_RFF)

\* lib.rs:94-98: the status test of is_rx_fifo_empty, on the usr value read
is_rx_fifo_empty(usr) == ~contains(usr, Usr_RFNE)

\* The methods that take &self: they may run while other shared references
\* to the driver are in use.
SharedOps == {"is_tx_fifo_full", "is_rx_fifo_empty", "flush"}

\* The owner starts a call: calls only start between calls (&mut self / &self
\* of one owner), a &mut self call only while no reader is inside a call, and
\* the call's logs start empty.
Begin(name, a) ==
  /\ pc = "idle"
  /\ calls < MaxCalls
  /\ \A r \in DOMAIN rd : name \notin SharedOps => rd[r].pc = "idle"
  /\ calls' = calls + 1
  /\ op' = name
  /\ args' = a
  /\ writes' = << >>
  /\ reads' = << >>
  /\ hist' = Hist([hist EXCEPT !.emptySeen =
                     IF name = "is_rx_fifo_empty" THEN is_rx_fifo_empty(UsrValue)
                     ELSE IF name = "read_word" THEN @
                     ELSE FALSE,
                     !.waited = FALSE])
  /\ UNCHANGED rd

\* lib.rs:49: 16 * baud_rate, as the build computes it when it does not panic
mul16(baud_rate) == 16 * (baud_rate % U32Over16)

\* lib.rs:49: whether computing the divisor panics: the multiplication
\* overflows in a build with overflow checks, or the division is by zero.
configure_panics(baud_rate) ==
  \/ overflow_checks /\ baud_rate >= U32Over16
  \/ mul16(baud_rate) = 0

\* lib.rs:49
cfg_divisor(baud_rate, serial_clock) == serial_clock \div mul16(baud_rate)

\* lib.rs:50
cfg_fractional(baud_rate, serial_clock) ==
  (serial_clock % mul16(baud_rate)) \div baud_rate

\* Mutant of cfg_dll_value: the mask forgotten.
cfg_dll_value_unmasked(baud_rate, serial_clock) == cfg_divisor(baud_rate, serial_clock)

\* lib.rs:52: divisor & 0xff
cfg_dll_value(baud_rate, serial_clock) == cfg_divisor(baud_rate, serial_clock) % 256

\* lib.rs:53: divisor >> 8
cfg_dlh_value(baud_rate, serial_clock) == cfg_divisor(baud_rate, serial_clock) \div 256

\* lib.rs:36
call_configure ==
  /\ \E a \in ConfigArgs :
       Begin("configure", [NoArgs EXCEPT !.baud_rate = a[1], !.serial_clock = a[2]])
  /\ pc' = "cfg_poll"
  /\ ret' = Pending
  /\ lastUsr' = NoRead
  /\ via' = "direct"
  /\ UNCHANGED <<devVars, overflow_checks, errReports>>

\* Mutant of configure_waits: no wait at all.
configure_waits_never(usr) == FALSE

\* Mutant of configure_waits: the loop condition inverted.
configure_waits_inverted(usr) == ~contains(usr, Usr_BUSY)

\* lib.rs:38-41: the condition of configure's wait loop, on the usr value read
configure_waits(usr) == contains(usr, Usr_BUSY)

\* lib.rs:38-43: one read of usr; loop while BUSY
configure_poll ==
  /\ pc = "cfg_poll"
  /\ lastUsr' = UsrValue
  /\ pc' = IF configure_waits(UsrValue) THEN "cfg_poll" ELSE "cfg_lcr_dlab"
  /\ UNCHANGED <<devVars, overflow_checks, op, via, args, ret, writes, reads, calls, errReports>>
  /\ hist' = Hist([hist EXCEPT !.waited = @ \/ configure_waits(UsrValue)])
  /\ UNCHANGED rd

\* lib.rs:46-50: write Lcr::DLAB, then compute the divisor and the fraction
configure_lcr_dlab ==
  /\ pc = "cfg_lcr_dlab"
  /\ lcr' = Lcr_DLAB
  /\ writes' = Logged("lcr", Lcr_DLAB)
  /\ IF configure_panics(args.baud_rate)
       THEN pc' = "idle" /\ ret' = Panic
       ELSE pc' = "cfg_dlf" /\ UNCHANGED ret
  /\ UNCHANGED <<dll, dlh, txFifo, tsr, rxFifo, errBits, rxActive, arrivals, faults>>
  /\ UNCHANGED <<overflow_checks, op, via, args, reads, lastUsr, calls, errReports>>
  /\ UNCHANGED <<rd, hist>>

\* lib.rs:51
configure_dlf ==
  /\ pc = "cfg_dlf"
  /\ writes' = Logged("dlf", cfg_fractional(args.baud_rate, args.serial_clock))
  /\ pc' = "cfg_dll"
  /\ UNCHANGED <<devVars, overflow_checks, op, via, args, ret, reads, lastUsr, calls, errReports>>
  /\ UNCHANGED <<rd, hist>>

\* lib.rs:52
configure_dll ==
  /\ pc = "cfg_dll"
  /\ DevWriteOffset0(cfg_dll_value(args.baud_rate, args.serial_clock))
  /\ writes' = Logged("rbr_thr_dll", cfg_dll_value(args.baud_rate, args.serial_clock))
  /\ pc' = "cfg_dlh"
  /\ UNCHANGED <<lcr, dlh, tsr, rxFifo, errBits, rxActive, arrivals, faults>>
  /\ UNCHANGED <<overflow_checks, op, via, args, ret, reads, lastUsr, calls, errReports>>
  /\ UNCHANGED <<rd, hist>>

\* lib.rs:53
configure_dlh ==
  /\ pc = "cfg_dlh"
  /\ DevWriteOffset4(cfg_dlh_value(args.baud_rate, args.serial_clock))
  /\ writes' = Logged("dlh_ier", cfg_dlh_value(args.baud_rate, args.serial_clock))
  /\ pc' = "cfg_lcr_8n1"
  /\ UNCHANGED <<lcr, dll, txFifo, tsr, rxFifo, errBits, rxActive, arrivals, faults>>
  /\ UNCHANGED <<overflow_checks, op, via, args, ret, reads, lastUsr, calls, errReports>>
  /\ UNCHANGED <<rd, hist>>

\* lib.rs:56
configure_lcr_8n1 ==
  /\ pc = "cfg_lcr_8n1"
  /\ lcr' = Lcr_DLS_8
  /\ writes' = Logged("lcr", Lcr_DLS_8)
  /\ pc' = "cfg_fcr"
  /\ UNCHANGED <<dll, dlh, txFifo, tsr, rxFifo, errBits, rxActive, arrivals, faults>>
  /\ UNCHANGED <<overflow_checks, op, via, args, ret, reads, lastUsr, calls, errReports>>
  /\ UNCHANGED <<rd, hist>>

\* lib.rs:59-60
configure_fcr ==
  /\ pc = "cfg_fcr"
  /\ writes' = Logged("iir_fcr", Fcr_FIFOE)
  /\ pc' = "idle"
  /\ ret' = Unit
  /\ UNCHANGED <<devVars, overflow_checks, op, via, args, reads, lastUsr, calls, errReports>>
  /\ UNCHANGED <<rd, hist>>

\* Mutant of is_tx_fifo_full: the FIFO is never taken to be full, so
\* write_word does not wait.
is_tx_fifo_full_never(usr) == FALSE

\* Mutant of is_tx_fifo_full: the test inverted.
is_tx_fifo_full_inverted(usr) == contains(usr, Usr_TFNF)

\* lib.rs:65-69: the status test of is_tx_fifo_full, on the usr value read
is_tx_fifo_full(usr) == ~contains(usr, Usr_TFNF)

\* lib.rs:65-69: the query as a call of its own
call_is_tx_fifo_full ==
  /\ Begin("is_tx_fifo_full", NoArgs)
  /\ lastUsr' = UsrValue
  /\ ret' = Bool(is_tx_fifo_full(UsrValue))
  /\ via' = "direct"
  /\ UNCHANGED <<devVars, overflow_checks, pc, errReports>>

\* lib.rs:94-98
call_is_rx_fifo_empty ==
  /\ Begin("is_rx_fifo_empty", NoArgs)
  /\ lastUsr' = UsrValue
  /\ ret' = Bool(is_rx_fifo_empty(UsrValue))
  /\ via' = "direct"
  /\ UNCHANGED <<devVars, overflow_checks, pc, errReports>>

\* lib.rs:75
call_write_word ==
  /\ \E b \in TxBytes : Begin("write_word", [NoArgs EXCEPT !.byte = b])
  /\ pc' = "ww_poll"
  /\ ret' = Pending
  /\ lastUsr' = NoRead
  /\ via' = "direct"
  /\ UNCHANGED <<devVars, overflow_checks, errReports>>

\* lib.rs:77-79: one read of usr; loop while the TX FIFO is full
write_word_poll ==
  /\ pc = "ww_poll"
  /\ lastUsr' = UsrValue
  /\ pc' = IF is_tx_fifo_full(UsrValue) THEN "ww_poll" ELSE "ww_thr"
  /\ UNCHANGED <<devVars, overflow_checks, op, via, args, ret, writes, reads, calls, errReports>>
  /\ hist' = Hist([hist EXCEPT !.waited = @ \/ is_tx_fifo_full(UsrValue)])
  /\ UNCHANGED rd

\* lib.rs:81-82, and embedded_io.rs:27 when Write::write made the call
write_word_thr ==
  /\ pc = "ww_thr"
  /\ DevWriteOffset0(args.byte)
  /\ writes' = Logged("rbr_thr_dll", args.byte)
  /\ pc' = "idle"
  /\ ret' = IF via = "io_write" THEN Result("Ok", 1) ELSE Unit
  /\ UNCHANGED <<lcr, dlh, tsr, rxFifo, errBits, rxActive, arrivals, faults>>
  /\ UNCHANGED <<overflow_checks, op, via, args, reads, lastUsr, calls, errReports>>
  /\ hist' = Hist([hist EXCEPT !.accepted = Append(@, args.byte)])
  /\ UNCHANGED rd

\* lib.rs:85
call_flush ==
  /\ Begin("flush", NoArgs)
  /\ pc' = "fl_poll"
  /\ ret' = Pending
  /\ lastUsr' = NoRead
  /\ via' = "direct"
  /\ UNCHANGED <<devVars, overflow_checks, errReports>>

\* Mutant of flush_waits: the loop condition inverted.
flush_waits_inverted(usr) == contains(usr, Usr_TFE)

\* lib.rs:86: the condition of flush's wait loop, on the usr value read
flush_waits(usr) == ~contains(usr, Usr_TFE)

\* lib.rs:86-89: one read of usr; loop while TFE is clear
flush_poll ==
  /\ pc = "fl_poll"
  /\ lastUsr' = UsrValue
  /\ IF flush_waits(UsrValue)
       THEN UNCHANGED <<pc, ret>>
       ELSE pc' = "idle" /\ ret' = Unit
  /\ UNCHANGED <<devVars, overflow_checks, op, via, args, writes, reads, calls, errReports>>
  /\ hist' = Hist([hist EXCEPT !.waited = @ \/ flush_waits(UsrValue)])
  /\ UNCHANGED rd

\* Mutant of read_word_classify: the framing error tested before the break.
read_word_classify_fe_first(lsr) ==
  IF contains(lsr, Lsr_FE) THEN "Framing"
  ELSE IF contains(lsr, Lsr_BI) THEN "Break"
  ELSE IF contains(lsr, Lsr_PE) THEN "Parity"
  ELSE IF contains(lsr, Lsr_OE) THEN "Overrun"
  ELSE IF ~contains(lsr, Lsr_DR) THEN "None"
  ELSE "Data"

\* Mutant of read_word_classify: the break tested on bit 5 (THRE) instead of
\* bit 4.
read_word_classify_wrong_bit(lsr) ==
  IF contains(lsr, Lsr_THRE) THEN "Break"
  ELSE IF contains(lsr, Lsr_FE) THEN "Framing"
  ELSE IF contains(lsr, Lsr_PE) THEN "Parity"
  ELSE IF contains(lsr, Lsr_OE) THEN "Overrun"
  ELSE IF ~contains(lsr, Lsr_DR) THEN "None"
  ELSE "Data"

\* Mutant of read_word_classify: the overrun test forgotten.
read_word_classify_no_oe_test(lsr) ==
  IF contains(lsr, Lsr_BI) THEN "Break"
  ELSE IF contains(lsr, Lsr_FE) THEN "Framing"
  ELSE IF contains(lsr, Lsr_PE) THEN "Parity"
  ELSE IF ~contains(lsr, Lsr_DR) THEN "None"
  ELSE "Data"

\* Mutant of read_word_classify: the data-ready test forgotten.
read_word_classify_no_dr_test(lsr) ==
  IF contains(lsr, Lsr_BI) THEN "Break"
  ELSE IF contains(lsr, Lsr_FE) THEN "Framing"
  ELSE IF contains(lsr, Lsr_PE) THEN "Parity"
  ELSE IF contains(lsr, Lsr_OE) THEN "Overrun"
  ELSE "Data"

\* lib.rs:109-121: the classification of the Line Status value read
read_word_classify(lsr) ==
  IF contains(lsr, Lsr_BI) THEN "Break"
  ELSE IF contains(lsr, Lsr_FE) THEN "Framing"
  ELSE IF contains(lsr, Lsr_PE) THEN "Parity"
  ELSE IF contains(lsr, Lsr_OE) THEN "Overrun"
  ELSE IF ~contains(lsr, Lsr_DR) THEN "None"
  ELSE "Data"

\* lib.rs:120: `as u8` of the word read from the receive register
as_u8(word) == word % 256

\* lib.rs:104
call_read_word ==
  /\ Begin("read_word", NoArgs)
  /\ pc' = "rw_lsr"
  /\ ret' = Pending
  /\ lastUsr' = NoRead
  /\ via' = "direct"
  /\ UNCHANGED <<devVars, overflow_checks, errReports>>

\* lib.rs:105-118: the read of lsr (which clears the latched error bits) and
\* every outcome that needs no further register access
read_word_lsr ==
  /\ pc = "rw_lsr"
  /\ reads' = Append(reads, [reg |-> "lsr", val |-> LsrValue, dlab |-> DlabSet])
  /\ errBits' = {}
  /\ LET k == read_word_classify(LsrValue) IN
       IF k = "Data"
         THEN pc' = "rw_rbr" /\ UNCHANGED <<ret, errReports>>
         ELSE /\ pc' = "idle"
              /\ ret' = Result(k, 0)
              /\ errReports' = IF k = "None" THEN errReports ELSE errReports + 1
  /\ UNCHANGED <<lcr, dll, dlh, txFifo, tsr, rxFifo, rxActive, arrivals, faults>>
  /\ UNCHANGED <<overflow_checks, op, via, args, writes, lastUsr, calls>>
  /\ hist' = Hist([hist EXCEPT
                     !.ovr = FALSE,
                     !.ovrLost = @ \/ (hist.ovr /\ read_word_classify(LsrValue) # "Overrun")])
  /\ UNCHANGED rd

\* lib.rs:120: the read of offset 0, which takes the word off the receive FIFO
\* unless DLAB puts the divisor latch there
read_word_rbr ==
  /\ pc = "rw_rbr"
  /\ reads' = Append(reads, [reg |-> "rbr_thr_dll", val |-> RbrValue, dlab |-> DlabSet])
  /\ rxFifo' = IF DlabSet \/ rxFifo = << >> THEN rxFifo ELSE Tail(rxFifo)
  /\ pc' = "idle"
  /\ ret' = Result("Some", as_u8(RbrValue))
  /\ UNCHANGED <<lcr, dll, dlh, txFifo, tsr, errBits, rxActive, arrivals, faults>>
  /\ UNCHANGED <<overflow_checks, op, via, args, writes, lastUsr, calls, errReports>>
  /\ hist' = Hist([hist EXCEPT
                     !.popped = IF DlabSet \/ rxFifo = << >> THEN @ ELSE @ + 1,
                     !.byteReturns = @ + 1])
  /\ UNCHANGED rd

\* embedded_io.rs:22-29: Write::write
io_write ==
  /\ \E buf \in IoBufs : Begin("io_write", [NoArgs EXCEPT !.buf = buf])
  /\ lastUsr' = NoRead
  /\ IF ~(args'.buf = << >>)
       THEN pc' = "idle" /\ ret' = Result("Ok", 0) /\ via' = "direct"
       ELSE IF Len(args'.buf) = 0
         THEN pc' = "idle" /\ ret' = Panic /\ via' = "direct"
         ELSE pc' = "ww_poll" /\ ret' = Pending /\ via' = "io_write"
  /\ UNCHANGED <<devVars, overflow_checks, errReports>>

\* Mutant of io_read_loops: an error is swallowed like "no data".
io_read_loops_on_error(k) == k # "Data"

\* embedded_io.rs:55-60: the loop of Read::read goes round again exactly when
\* read_word returned Ok(None)
io_read_loops(k) == k = "None"

\* embedded_io.rs:50-54: Read::read; an empty buffer returns Ok(0) at once
call_io_read ==
  /\ \E buf \in IoReadBufs : Begin("io_read", [NoArgs EXCEPT !.buf = buf])
  /\ lastUsr' = NoRead
  /\ via' = "direct"
  /\ IF args'.buf = << >>
       THEN pc' = "idle" /\ ret' = Result("Ok", 0)
       ELSE pc' = "ior_lsr" /\ ret' = Pending
  /\ UNCHANGED <<devVars, overflow_checks, errReports>>

\* embedded_io.rs:56 with lib.rs:105-118: one read_word call of the loop, up to
\* its read of lsr; `reads` is the log of this read_word call. An error leaves
\* Read::read through `?`, Ok(None) goes round the loop.
io_read_lsr ==
  /\ pc = "ior_lsr"
  /\ reads' = <<[reg |-> "lsr", val |-> LsrValue, dlab |-> DlabSet]>>
  /\ errBits' = {}
  /\ LET k == read_word_classify(LsrValue) IN
       IF k = "Data"
         THEN pc' = "ior_rbr" /\ UNCHANGED <<ret, errReports>>
         ELSE IF io_read_loops(k)
           THEN pc' = "ior_lsr" /\ UNCHANGED <<ret, errReports>>
           ELSE /\ pc' = "idle"
                /\ ret' = Result(k, 0)
                /\ errReports' = errReports + 1
  /\ UNCHANGED <<lcr, dll, dlh, txFifo, tsr, rxFifo, rxActive, arrivals, faults>>
  /\ UNCHANGED <<overflow_checks, op, via, args, writes, lastUsr, calls>>
  /\ hist' = Hist([hist EXCEPT
                     !.ovr = FALSE,
                     !.ovrLost = @ \/ (hist.ovr /\ read_word_classify(LsrValue) # "Overrun")])
  /\ UNCHANGED rd

\* lib.rs:120 with embedded_io.rs:57-58: read_word's read of offset 0; the
\* byte goes into buf[0] and Read::read returns Ok(1)
io_read_rbr ==
  /\ pc = "ior_rbr"
  /\ reads' = Append(reads, [reg |-> "rbr_thr_dll", val |-> RbrValue, dlab |-> DlabSet])
  /\ rxFifo' = IF DlabSet \/ rxFifo = << >> THEN rxFifo ELSE Tail(rxFifo)
  /\ args' = [args EXCEPT !.buf[1] = as_u8(RbrValue)]
  /\ pc' = "idle"
  /\ ret' = Result("Ok", 1)
  /\ hist' = Hist([hist EXCEPT
                     !.popped = IF DlabSet \/ rxFifo = << >> THEN @ ELSE @ + 1,
                     !.byteReturns = @ + 1])
  /\ UNCHANGED <<lcr, dll, dlh, txFifo, tsr, errBits, rxActive, arrivals, faults>>
  /\ UNCHANGED <<overflow_checks, op, via, writes, lastUsr, calls, errReports, rd>>

\* lib.rs:130-131: fmt::Write::write_str; the loop body is not entered for an
\* empty string
call_write_str ==
  /\ \E s \in Strs :
       Begin("write_str", [NoArgs EXCEPT !.buf = s,
                                         !.byte = IF s = << >> THEN 0 ELSE s[1]])
  /\ lastUsr' = NoRead
  /\ via' = "direct"
  /\ IF args'.buf = << >>
       THEN pc' = "idle" /\ ret' = Result("Ok", 0)
       ELSE pc' = "ws_poll" /\ ret' = Pending
  /\ UNCHANGED <<devVars, overflow_checks, errReports>>

\* lib.rs:132 with lib.rs:77-79: the wait loop of the write_word call made for
\* the current byte
write_str_poll ==
  /\ pc = "ws_poll"
  /\ lastUsr' = UsrValue
  /\ pc' = IF is_tx_fifo_full(UsrValue) THEN "ws_poll" ELSE "ws_thr"
  /\ UNCHANGED <<devVars, overflow_checks, op, via, args, ret, writes, reads, calls, errReports>>
  /\ hist' = Hist([hist EXCEPT !.waited = @ \/ is_tx_fifo_full(UsrValue)])
  /\ UNCHANGED rd

\* lib.rs:132 with lib.rs:81-82: the write of the current byte, then the next
\* byte of the string, or Ok(()) after the last one (lib.rs:134)
write_str_thr ==
  /\ pc = "ws_thr"
  /\ DevWriteOffset0(args.byte)
  /\ writes' = Logged("rbr_thr_dll", args.byte)
  /\ hist' = Hist([hist EXCEPT !.accepted = Append(@, args.byte)])
  /\ IF Len(writes) + 1 < Len(args.buf)
       THEN /\ pc' = "ws_poll"
            /\ args' = [args EXCEPT !.byte = args.buf[Len(writes) + 2]]
            /\ UNCHANGED ret
       ELSE /\ pc' = "idle"
            /\ ret' = Result("Ok", 0)
            /\ UNCHANGED args
  /\ UNCHANGED <<lcr, dlh, tsr, rxFifo, errBits, rxActive, arrivals, faults>>
  /\ UNCHANGED <<overflow_checks, op, via, reads, lastUsr, calls, errReports, rd>>

\* A reader may be inside a call only while the owner is in no &mut self call.
Shareable == pc = "idle" \/ op \in SharedOps

\* lib.rs:65-69, called through a shared reference
reader_is_tx_fifo_full(r) ==
  /\ Shareable /\ rd[r].pc = "idle"
  /\ rd' = [rd EXCEPT ![r] = [pc |-> "idle", op |-> "is_tx_fifo_full",
                               ret |-> Bool(is_tx_fifo_full(UsrValue))]]
  /\ UNCHANGED <<devVars, overflow_checks, drvVars, hist>>

\* lib.rs:94-98, called through a shared reference
reader_is_rx_fifo_empty(r) ==
  /\ Shareable /\ rd[r].pc = "idle"
  /\ rd' = [rd EXCEPT ![r] = [pc |-> "idle", op |-> "is_rx_fifo_empty",
                               ret |-> Bool(is_rx_fifo_empty(UsrValue))]]
  /\ UNCHANGED <<devVars, overflow_checks, drvVars, hist>>

\* lib.rs:85, called through a shared reference
reader_call_flush(r) ==
  /\ Shareable /\ rd[r].pc = "idle"
  /\ rd' = [rd EXCEPT ![r] = [pc |-> "fl_poll", op |-> "flush", ret |-> Pending]]
  /\ UNCHANGED <<devVars, overflow_checks, drvVars, hist>>

\* lib.rs:86-89: one read of usr by a reader's flush; loop while TFE is clear
reader_flush_poll(r) ==
  /\ rd[r].pc = "fl_poll"
  /\ IF flush_waits(UsrValue)
       THEN UNCHANGED rd
       ELSE rd' = [rd EXCEPT ![r] = [pc |-> "idle", op |-> "flush", ret |-> Unit]]
  /\ UNCHANGED <<devVars, overflow_checks, drvVars, hist>>

\* A raw value of register type `op` is taken apart into its named flags.
flags_decompose ==
  /\ pc = "flags"
  /\ pc' = "named"
  /\ ret' = [kind |-> "flags", val |-> Decompose(op, args.raw)]
  /\ UNCHANGED <<devVars, overflow_checks, op, via, args, writes, reads, lastUsr,
                 calls, errReports, rd, hist>>

\* The named flags are put together again.
flags_recompose ==
  /\ pc = "named"
  /\ pc' = "done"
  /\ ret' = [kind |-> "bits", val |-> Recompose(op, ret.val)]
  /\ args' = [args EXCEPT !.names = ret.val]
  /\ UNCHANGED <<devVars, overflow_checks, op, via, writes, reads, lastUsr,
                 calls, errReports, rd, hist>>

\* ------------------------------------------------------ the specification
InitState(on, readers) ==
  /\ lcr = 0 /\ dll = 0 /\ dlh = 0
  /\ txFifo = << >> /\ tsr = << >> /\ rxFifo = << >>
  /\ errBits = {} /\ rxActive = FALSE
  /\ arrivals = 0 /\ faults = 0
  /\ overflow_checks \in BOOLEAN
  /\ pc = "idle" /\ op = "none" /\ via = "direct"
  /\ args = NoArgs /\ ret = Unit
  /\ writes = << >> /\ reads = << >> /\ lastUsr = NoRead
  /\ calls = 0 /\ errReports = 0
  /\ rd = [r \in readers |-> IdleReader]
  /\ hist = HistInit(on)

\* The state after SynopsysUart::new (lib.rs:27-29), on a device at rest, the
\* driver in the hands of its owner alone.
Init == InitState(FALSE, {})

Next ==
  \/ DevTxLoad \/ DevTxShiftOut \/ DevRxStart \/ DevRxDone \/ DevFault
  \/ call_configure \/ configure_poll \/ configure_lcr_dlab \/ configure_dlf
  \/ configure_dll \/ configure_dlh \/ configure_lcr_8n1 \/ configure_fcr
  \/ call_is_tx_fifo_full \/ call_is_rx_fifo_empty
  \/ call_write_word \/ write_word_poll \/ write_word_thr
  \/ call_flush \/ flush_poll
  \/ call_read_word \/ read_word_lsr \/ read_word_rbr
  \/ io_write

Spec == Init /\ [][Next]_vars

\* The driver shared: the device (whose only receive fault here is the
\* overrun), the owner filling the transmit FIFO and flushing, and the readers
\* of lib.rs:125-127 calling the &self methods at any moment the borrow rules
\* allow.
NextShared ==
  \/ DevTxLoad \/ DevTxShiftOut \/ DevRxStart \/ DevRxDone
  \/ call_write_word \/ write_word_poll \/ write_word_thr
  \/ call_flush \/ flush_poll
  \/ \E r \in Readers : reader_is_tx_fifo_full(r)
  \/ \E r \in Readers : reader_is_rx_fifo_empty(r)
  \/ \E r \in Readers : reader_call_flush(r)
  \/ \E r \in Readers : reader_flush_poll(r)

\* No configure is called here, so one build stands for both.
InitShared == InitState(FALSE, Readers) /\ ~overflow_checks

SpecShared == InitShared /\ [][NextShared]_vars

\* The polling calls under a fair schedule: the processor goes on executing
\* the call it is in, the transmitter goes on draining the transmit FIFO, and a
\* character that is arriving completes; the line carries finitely many
\* characters (MaxArrivals), so the busy flag clears for good.
InitPolling == InitState(TRUE, {})

OwnerStep ==
  \/ configure_poll \/ configure_lcr_dlab \/ configure_dlf \/ configure_dll
  \/ configure_dlh \/ configure_lcr_8n1 \/ configure_fcr
  \/ write_word_poll \/ write_word_thr
  \/ flush_poll

NextPolling ==
  \/ DevTxLoad \/ DevTxShiftOut \/ DevRxStart \/ DevRxDone
  \/ call_configure \/ call_write_word \/ call_flush
  \/ OwnerStep

FairSpec ==
  /\ InitPolling /\ [][NextPolling]_vars
  /\ WF_vars(OwnerStep)
  /\ WF_vars(DevTxLoad) /\ WF_vars(DevTxShiftOut) /\ WF_vars(DevRxDone)

\* The flag types alone: a raw value of one register type, made of any set of
\* its named flags and of its field bits, is taken apart and put together.
InitFlags ==
  /\ lcr = 0 /\ dll = 0 /\ dlh = 0
  /\ txFifo = << >> /\ tsr = << >> /\ rxFifo = << >>
  /\ errBits = {} /\ rxActive = FALSE
  /\ arrivals = 0 /\ faults = 0
  /\ overflow_checks = FALSE
  /\ pc = "flags" /\ via = "direct"
  /\ op \in RegTypes
  /\ \E set \in SUBSET (DOMAIN FlagTable(op)) : \E field \in FieldBits(op) :
       args = [set |-> set, field |-> field, raw |-> Recompose(op, set) + field,
               names |-> {}]
  /\ ret = Pending
  /\ writes = << >> /\ reads = << >> /\ lastUsr = NoRead
  /\ calls = 0 /\ errReports = 0
  /\ rd = [r \in {} |-> IdleReader]
  /\ hist = HistInit(FALSE)

NextFlags == flags_decompose \/ flags_recompose

SpecFlags == InitFlags /\ [][NextFlags]_vars

\* The data path, with its history kept, and no configure call. The transmit
\* side: the owner's transmit calls and the transmitter.
InitDataPath == InitState(TRUE, {}) /\ ~overflow_checks

NextTx ==
  \/ DevTxLoad \/ DevTxShiftOut
  \/ call_is_tx_fifo_full
  \/ call_write_word \/ write_word_poll \/ write_word_thr
  \/ call_write_str \/ write_str_poll \/ write_str_thr
  \/ call_flush \/ flush_poll

SpecTx == InitDataPath /\ [][NextTx]_vars

\* The receive side: the owner's receive calls, the receiver and its faults.
NextRx ==
  \/ DevRxStart \/ DevRxDone \/ DevFault
  \/ call_is_rx_fifo_empty
  \/ call_read_word \/ read_word_lsr \/ read_word_rbr
  \/ call_io_read \/ io_read_lsr \/ io_read_rbr

SpecRx == InitDataPath /\ [][NextRx]_vars

\* ------------------------------------------------------------ the claims
\* Bit k of a register value, by position.
BitAt(v, k) == (v \div (2 ^ k)) % 2 = 1

\* The call named `name` has ended.
Ended(name) == pc = "idle" /\ op = name

\* A call's writes as (register, value) pairs.
WritePairs == [i \in 1..Len(writes) |-> <<writes[i].reg, writes[i].val>>]

C1_Expected(l, w) ==
  IF BitAt(l, 4) THEN Result("Break", 0)
  ELSE IF BitAt(l, 3) THEN Result("Framing", 0)
  ELSE IF BitAt(l, 2) THEN Result("Parity", 0)
  ELSE IF BitAt(l, 1) THEN Result("Overrun", 0)
  ELSE IF ~BitAt(l, 0) THEN Result("None", 0)
  ELSE Result("Some", w % 256)

\* C1: a read_word call that has ended read Line Status exactly once, as its
\* first register access, and returned Break if bit 4 (break interrupt) of the
\* value read is set, else Framing if bit 3 is set, else Parity if bit 2 is
\* set, else Overrun if bit 1 is set, else "no data" if bit 0 (data ready) is
\* clear, else the low 8 bits of the word it then read from the receive
\* register; it read the receive register only in the last case.
C1_ReadWordPrecedence ==
  Ended("read_word") =>
    /\ Len(reads) \in {1, 2}
    /\ reads[1].reg = "lsr"
    /\ Len(reads) = 2 => reads[2].reg = "rbr_thr_dll"
    /\ (Len(reads) = 2) <=> (ret.kind = "Some")
    /\ ret = C1_Expected(reads[1].val, IF Len(reads) = 2 THEN reads[2].val ELSE 0)

\* C1 witness: read_word has returned Break from a Line Status value with the
\* break, framing, parity and overrun bits all set.
C1_Witness ==
  /\ Ended("read_word")
  /\ ret.kind = "Break"
  /\ (reads[1].val \div 2) % 16 = 15

\* C2: write_word is about to write the transmit register only after a status
\* read in which bit 1 (TX FIFO not full) was set, and the FIFO is then not
\* full; while it polls it has written nothing; when it has ended it has made
\* exactly one write, of its byte, to the transmit register.
C2_WriteOnlyWhenNotFull ==
  /\ pc = "ww_thr" => /\ lastUsr # NoRead
                      /\ BitAt(lastUsr, 1)
                      /\ Len(txFifo) < TxDepth
  /\ pc = "ww_poll" => writes = << >>
  /\ Ended("write_word") => /\ WritePairs = << <<"rbr_thr_dll", args.byte>> >>
                            /\ lastUsr # NoRead
                            /\ BitAt(lastUsr, 1)

\* C2 witness: write_word polls a full transmit FIFO: its last status read had
\* "TX FIFO not full" clear, and it has not written.
C2_Witness ==
  /\ pc = "ww_poll"
  /\ lastUsr # NoRead
  /\ ~BitAt(lastUsr, 1)
  /\ Len(txFifo) = TxDepth

\* The precondition of C3 on the current call's arguments: baud_rate > 0 and
\* serial_clock >= 16 * baud_rate.
C3_Supported ==
  /\ op = "configure"
  /\ args.baud_rate > 0
  /\ args.serial_clock \div 16 >= args.baud_rate

C3_Divisor == args.serial_clock \div (16 * args.baud_rate)

\* C3 as amended: for a supported pair, configure's second write is
\* (serial_clock mod (16 * baud_rate)) div baud_rate to the fractional divisor
\* register, its third is divisor mod 256 (in 0..255) to the low divisor
\* register and its fourth is divisor div 256 to the high divisor register, so
\* that high * 256 + low = divisor; the high value is in 0..255 exactly when
\* divisor < 65536.
C3_DivisorProgrammed ==
  C3_Supported =>
    /\ Len(writes) >= 2 =>
         WritePairs[2] = <<"dlf", (args.serial_clock % (16 * args.baud_rate)) \div args.baud_rate>>
    /\ Len(writes) >= 3 =>
         /\ writes[3].reg = "rbr_thr_dll"
         /\ writes[3].val = C3_Divisor % 256
         /\ writes[3].val \in 0..255
    /\ Len(writes) >= 4 =>
         /\ writes[4].reg = "dlh_ier"
         /\ writes[4].val = C3_Divisor \div 256
         /\ writes[4].val * 256 + writes[3].val = C3_Divisor
         /\ (writes[4].val \in 0..255) <=> (C3_Divisor < 65536)

\* C3 witness: configure(115200, 48000000) has ended with 26 written to the
\* low divisor register and 0 to the high one.
C3_Witness ==
  /\ Ended("configure")
  /\ args.baud_rate = 115200 /\ args.serial_clock = 48000000
  /\ Len(writes) = 6
  /\ writes[3].val = 26 /\ writes[4].val = 0

\* C3 as stated: for a supported pair the values written to the low and the
\* high divisor register are both in 0..255 and high * 256 + low = divisor.
C3_Original ==
  (C3_Supported /\ Len(writes) >= 4) =>
    /\ WritePairs[2] = <<"dlf", (args.serial_clock % (16 * args.baud_rate)) \div args.baud_rate>>
    /\ writes[3].val = C3_Divisor % 256
    /\ writes[4].val * 256 + writes[3].val = C3_Divisor
    /\ writes[3].val \in 0..255
    /\ writes[4].val \in 0..255

C4_SixWrites(d, f) ==
  << <<"lcr", 128>>, <<"dlf", f>>, <<"rbr_thr_dll", d % 256>>,
     <<"dlh_ier", d \div 256>>, <<"lcr", 3>>, <<"iir_fcr", 1>> >>

\* C4: a configure call that has ended has issued exactly six register writes:
\* Line Control = 128 (only the divisor-latch-access bit), the fractional
\* divisor, the low divisor byte, the high divisor byte, Line Control = 3 (8
\* data bits, every other bit clear), FIFO Control = 1 (FIFO enable).
C4_ExactlySixWrites ==
  Ended("configure") =>
    /\ Len(writes) = 6
    /\ WritePairs = C4_SixWrites(writes[3].val + 256 * writes[4].val, writes[2].val)

\* C5: configure has written nothing while it polls, and whenever it has
\* written anything its last status read had bit 0 (busy) clear.
C5_NoWriteWhileBusy ==
  op = "configure" =>
    /\ pc = "cfg_poll" => writes = << >>
    /\ writes # << >> => (lastUsr # NoRead /\ ~BitAt(lastUsr, 0))
    /\ pc # "cfg_poll" => (lastUsr # NoRead /\ ~BitAt(lastUsr, 0))

\* C5 witness: configure has read the status register with busy set and is
\* still polling, having written nothing.
C5_Witness ==
  /\ op = "configure" /\ pc = "cfg_poll"
  /\ lastUsr # NoRead /\ BitAt(lastUsr, 0)
  /\ writes = << >>

\* C6: the divisor-latch-access bit (bit 7 of Line Control) is set only inside
\* a configure call, after its first and before its second Line Control write;
\* every write of write_word to offset 0 and every read of read_word from
\* offset 0 happens with the bit clear; every divisor write of configure
\* happens with it set.
C6_DlabOnlyInsideConfigure ==
  /\ BitAt(lcr, 7) =>
       (op = "configure" /\ pc \in {"cfg_dlf", "cfg_dll", "cfg_dlh", "cfg_lcr_8n1"})
  /\ op \in {"write_word", "io_write"} =>
       \A i \in 1..Len(writes) : ~writes[i].dlab
  /\ op = "read_word" =>
       \A i \in 1..Len(reads) : reads[i].reg = "rbr_thr_dll" => ~reads[i].dlab
  /\ op = "configure" =>
       \A i \in 1..Len(writes) :
         writes[i].reg \in {"rbr_thr_dll", "dlh_ier"} => writes[i].dlab

\* C7: flush writes no register; while it polls, its last status read had bit
\* 2 (transmit FIFO empty, the bit it waits for) clear; when it has ended, its
\* last status read had the bit set.
C7_FlushReturnsOnTfe ==
  op = "flush" =>
    /\ writes = << >>
    /\ (pc = "fl_poll" /\ lastUsr # NoRead) => ~BitAt(lastUsr, 2)
    /\ pc = "idle" => (lastUsr # NoRead /\ BitAt(lastUsr, 2))

\* C7 witness: flush has polled with the bit clear and has not returned.
C7_Witness ==
  /\ op = "flush" /\ pc = "fl_poll"
  /\ lastUsr # NoRead /\ ~BitAt(lastUsr, 2)

\* C8: when flush has returned, no byte is held in the transmit FIFO or in
\* the transmitter's shift register.
C8_FlushMeansTransmitted ==
  Ended("flush") => (txFifo = << >> /\ tsr = << >>)

\* C9: read_word has reported no more errors than receive faults have
\* occurred, counting one more for a fault still latched in Line Status: each
\* occurrence is reported by at most one call and is not latched any more
\* once it has been reported.
C9_ErrorReportedOnce ==
  errReports + (IF errBits # {} THEN 1 ELSE 0) <= faults

\* C9 witness: one fault has occurred, a first read_word reported it and the
\* next read_word has returned "no data".
C9_Witness ==
  /\ faults = 1 /\ errReports = 1 /\ calls = 2
  /\ Ended("read_word") /\ ret.kind = "None"

\* C10: when the byte-stream write has ended it has not panicked; given an
\* empty buffer it has written nothing and returned 0; given a non-empty one
\* it has written the buffer's first byte to the transmit register and
\* returned 1.
C10_IoWrite ==
  Ended("io_write") =>
    /\ ret.kind = "Ok"
    /\ IF args.buf = << >>
         THEN ret.val = 0 /\ writes = << >>
         ELSE ret.val = 1 /\ WritePairs = << <<"rbr_thr_dll", args.buf[1]>> >>

\* A buffer of zeros, as every buffer handed to Read::read is at the call.
Zeros(n) == [i \in 1..n |-> 0]

\* C11: Read::read given an empty buffer returns Ok(0) without reading any
\* register. Given a non-empty buffer it goes on calling read_word as long as
\* the call returned "no data"; at the first other outcome it ends: a byte is
\* stored in the buffer's first slot (the other slots untouched) and Ok(1)
\* returned, an error is returned as read_word gave it with the buffer
\* untouched. It never returns Ok(0) for a non-empty buffer.
C11_IoRead ==
  op = "io_read" =>
    IF Len(args.buf) = 0
      THEN pc = "idle" /\ ret = Result("Ok", 0) /\ reads = << >> /\ lastUsr = NoRead
      ELSE
        /\ pc = "ior_lsr" =>
             /\ ret = Pending /\ args.buf = Zeros(Len(args.buf))
             /\ reads = << >> \/ (Len(reads) = 1 /\ C1_Expected(reads[1].val, 0).kind = "None")
        /\ pc = "ior_rbr" =>
             /\ ret = Pending /\ args.buf = Zeros(Len(args.buf))
             /\ Len(reads) = 1 /\ C1_Expected(reads[1].val, 0).kind = "Some"
        /\ pc = "idle" =>
             /\ reads # << >> /\ reads[1].reg = "lsr"
             /\ ret # Result("Ok", 0)
             /\ LET e == C1_Expected(reads[1].val, reads[Len(reads)].val) IN
                  IF e.kind = "Some"
                    THEN /\ Len(reads) = 2 /\ reads[2].reg = "rbr_thr_dll"
                         /\ ret = Result("Ok", 1)
                         /\ args.buf = [Zeros(Len(args.buf)) EXCEPT ![1] = e.val]
                    ELSE /\ Len(reads) = 1
                         /\ e.kind # "None"
                         /\ ret = e
                         /\ args.buf = Zeros(Len(args.buf))

\* C11 witness: Read::read stored the truncated word 451 in the first slot of
\* a two-byte buffer and returned Ok(1).
C11_Witness ==
  Ended("io_read") /\ ret = Result("Ok", 1) /\ args.buf = <<195, 0>>

\* C12: when is_rx_fifo_empty has returned true and neither a byte nor a fault
\* has arrived from the device since, the next read_word returns "no data";
\* and a read_word that returned "no data" found the receive FIFO empty (data
\* ready clear in the Line Status value it read).
C12_EmptyMeansNoData ==
  Ended("read_word") =>
    /\ hist.emptySeen => ret = Result("None", 0)
    /\ ret = Result("None", 0) => ~BitAt(reads[1].val, 0)

\* A step of one of the &self methods: by a reader, or by the owner.
C13_SharedStep == rd' # rd \/ (op' \in SharedOps /\ drvVars' # drvVars)

\* C13: whatever the interleaving of is_tx_fifo_full, is_rx_fifo_empty and
\* flush called by the owner and by any reader, every step of these calls
\* leaves the whole device state (registers, FIFOs, latched error bits)
\* unchanged and logs no register write and no read of lsr or offset 0; is_tx_fifo_full returns the negation of TFNF (usr bit
\* 1) and is_rx_fifo_empty the negation of RFNE (usr bit 3) as the device
\* presents them at that step, and flush returns only at a step where TFE (usr
\* bit 2) is set.
C13_SharedReadsOnlyStatus ==
  [][C13_SharedStep =>
       /\ UNCHANGED devVars
       /\ rd' # rd => UNCHANGED <<writes, reads>>
       /\ \A r \in Readers : rd'[r] # rd[r] =>
            /\ rd'[r].op = "is_tx_fifo_full" => rd'[r].ret = Bool(~BitAt(UsrValue, 1))
            /\ rd'[r].op = "is_rx_fifo_empty" => rd'[r].ret = Bool(~BitAt(UsrValue, 3))
            /\ rd'[r].op = "flush" /\ rd'[r].pc = "idle" => BitAt(UsrValue, 2)
       /\ rd' = rd =>
            /\ writes' = << >> /\ reads' = << >>
            /\ op' = "flush" /\ pc' = "idle" => BitAt(UsrValue, 2)
    ]_vars

\* C13 witness: the owner and one reader are both inside flush, waiting, while
\* the other reader has just been told that the receive FIFO is not empty and
\* an error bit is latched.
C13_Witness ==
  /\ pc = "fl_poll" /\ rd["r1"].pc = "fl_poll"
  /\ rd["r2"].op = "is_rx_fifo_empty" /\ rd["r2"].ret = Bool(FALSE)
  /\ rxFifo # << >> /\ errBits # {} /\ txFifo # << >>

\* C14: configure has no abort: for every (baud_rate, serial_clock), once a
\* configure call has ended it has returned normally, after all six register
\* writes, and the divisor-latch-access bit (bit 7 of Line Control) is clear.
C14_ConfigureNeverAborts ==
  Ended("configure") => ret = Unit /\ Len(writes) = 6 /\ ~BitAt(lcr, 7)

\* The calls that poll the status register.
C15_Polling == {"write_word", "flush", "configure"}

C16_FlagsRoundTrip ==
  /\ pc = "named" => ret.val = args.set
  /\ pc = "done" =>
       /\ args.names = args.set
       /\ \A n \in DOMAIN FlagTable(op) :
            n \in args.names <=> (args.raw \div FlagTable(op)[n]) % 2 = 1
       /\ args.field = 0 => ret.val = args.raw

\* C16 witness: the Line Status value 17 (break interrupt and data ready) has
\* been taken apart into BI and DR and put together again.
C16_Witness ==
  pc = "done" /\ op = "Lsr" /\ args.raw = 17 /\ args.names = {"BI", "DR"} /\ ret.val = 17

\* The bytes the current call has written to offset 0, in order.
C17_Written == [i \in 1..Len(writes) |-> writes[i].val]

C18_RbrReads == Len(SelectSeq(reads, LAMBDA e : e.reg = "rbr_thr_dll"))

\* C18: on the receive side, a read_word call that has ended read the receive
\* register exactly once if it returned a byte and not at all if it returned
\* an error or "no data"; the number of words taken off the receive FIFO so
\* far equals the number of read_word calls that returned a byte; and the step
\* by which read_word returns an error or "no data" leaves the receive FIFO as
\* it was, while the step by which it returns a byte takes exactly the head
\* word off.
C18_OneRbrReadPerByte ==
  /\ [](Ended("read_word") => C18_RbrReads = IF ret.kind = "Some" THEN 1 ELSE 0)
  /\ [](hist.popped = hist.byteReturns)
  /\ [][/\ (pc = "rw_lsr" /\ pc' = "idle") => rxFifo' = rxFifo
        /\ (pc = "rw_rbr" /\ pc' = "idle") =>
             /\ rxFifo # << >> /\ rxFifo' = Tail(rxFifo)
             /\ ret' = Result("Some", Head(rxFifo) % 256)]_vars

\* C18 witness: after one read_word call took a byte off the receive FIFO, a
\* second one has returned an error and the word that arrived since is still
\* in the FIFO.
C18_Witness ==
  /\ Ended("read_word") /\ ret.kind \in {"Break", "Framing", "Parity", "Overrun"}
  /\ hist.popped = 1 /\ hist.byteReturns = 1 /\ rxFifo # << >>

\* The error kind of a Line Status error bit.
C19_Kind(bit) ==
  CASE bit = Lsr_BI -> "Break" [] bit = Lsr_FE -> "Framing"
    [] bit = Lsr_PE -> "Parity" [] bit = Lsr_OE -> "Overrun"

\* The highest of a non-empty set of error bits: break (bit 4) over framing
\* (bit 3) over parity (bit 2) over overrun (bit 1).
C19_Highest(bits) == CHOOSE b \in bits : \A c \in bits : c <= b

\* C19 as claimed: no fault is lost, also when independent faults set several
\* error bits before the same read of Line Status. In particular an overrun
\* latched in Line Status is never cleared by a read_word call that returns
\* something other than Overrun.
C19_NoFaultLost == ~hist.ovrLost

\* C19 as amended: every read of Line Status that finds error bits latched
\* clears all of them and ends the read_word call with one error, the kind of
\* the highest-priority bit latched (break over framing over parity over
\* overrun); a fault whose bit is not the highest at that read is cleared
\* without being reported.
C19_HighestFaultReported ==
  [][(errBits # {} /\ errBits' # errBits) =>
       \/ errBits \subseteq errBits'
       \/ /\ errBits' = {}
          /\ pc \in {"rw_lsr", "ior_lsr"} /\ pc' = "idle"
          /\ ret' = Result(C19_Kind(C19_Highest(errBits)), 0)
          /\ errReports' = errReports + 1]_vars

\* C19 witness: an overrun and a parity error were latched before the same
\* read of Line Status; read_word returned Parity and no bit is latched any
\* more.
C19_Witness ==
  /\ Ended("read_word") /\ ret = Result("Parity", 0)
  /\ hist.ovrLost /\ errBits = {}
  /\ BitAt(reads[1].val, 1) /\ BitAt(reads[1].val, 2)

\* Where configure stands just before each of its Line Control and divisor
\* writes (lib.rs:46, 51, 52, 53, 56).
C20_BeforeWrite == {"cfg_lcr_dlab", "cfg_dlf", "cfg_dll", "cfg_dlh", "cfg_lcr_8n1"}

\* C20 as claimed: in every interleaving of configure with the device, the
\* device is not busy (usr bit 0 clear) at the moment of each of configure's
\* Line Control and divisor writes.
C20_NotBusyAtWrites ==
  pc \in C20_BeforeWrite => ~BitAt(UsrValue, 0)

\* C20 as amended: each of configure's Line Control and divisor writes comes
\* after a read of the status register that showed busy clear, with no
\* further read in between; at the first of them (the divisor-latch-access
\* write) the transmitter is idle, so that the device can be busy at that
\* moment only because a character has started to arrive since the read.
C20_BusyOnlyByArrival ==
  pc \in C20_BeforeWrite =>
    /\ lastUsr # NoRead /\ ~BitAt(lastUsr, 0)
    /\ pc = "cfg_lcr_dlab" =>
         /\ txFifo = << >> /\ tsr = << >>
         /\ BitAt(UsrValue, 0) => rxActive

\* C20 witness: configure has seen busy clear and is about to write the
\* divisor-latch-access bit while a character is arriving and the device is
\* busy again.
C20_Witness ==
  /\ pc = "cfg_lcr_dlab" /\ ~BitAt(lastUsr, 0)
  /\ rxActive /\ BitAt(UsrValue, 0)

====
